---- MODULE Spec2Model ----
(***************************************************************************)
(* Model of the Odyssey-Management toolkit:                                *)
(*   - utilities/create_qr_code.py   (QRCodeConfig, QRCodeGenerator)       *)
(*   - utilities/email_utilities/smtp_client.py (SMTPClient, EmailClient)  *)
(*   - google_apis/forms/{api_client,form,form_template}.py                *)
(* Strings are sequences of one-character strings, so that rstrip,         *)
(* percent-encoding and time formatting are computed character by          *)
(* character.  Each subsystem has its own specification (SpecQR, SpecMail, *)
(* SpecForms, SpecAuth); the variables of the other subsystems then stay   *)
(* at their initial values.                                                *)
(***************************************************************************)
EXTENDS Integers, Sequences, FiniteSets, TLC

VARIABLES
    \* ---- create_qr_code.py
    clock,      \* system clock: half-minutes (30 s) since 2025-11-02T00:00:00Z
    cfg,        \* the constructed QRCodeConfig, or NoCfg
    ctor,       \* the last attempt to construct a QRCodeConfig
    urls,       \* results of the last two _build_signed_url calls, newest first
    gens,       \* results of the last two generate_qr_code_with_image calls
    fs,         \* output files: file name -> image written
    calls,      \* number of generator calls made (bounded)
    \* ---- smtp_client.py
    smtp,       \* the constructed SMTPClient's SMTPConfig, or NoClient
    smtpCtor,   \* the last SMTPClient() construction: environment and outcome
    sent,       \* the last send_email call: message, outcome, SMTP events
    sends,      \* number of send_email calls made (bounded)
    \* ---- forms
    template,   \* the GoogleFormTemplate of the GoogleForm
    form_id,    \* GoogleForm.form_id
    responder_uri, \* GoogleForm.responder_uri
    formOp,     \* the last GoogleForm operation: outcome and API calls issued
    ops,        \* number of GoogleForm operations made (bounded)
    \* ---- forms/api_client.py
    token_file, \* what is at FormsAPIConfig.token_path
    apiClient,  \* the FormsAPIClient: whether it exists, and its _session
    sessions,   \* number of AuthorizedSession objects made for the client
    authOp,     \* the last client operation: credential steps and outcome
    authOps     \* number of client operations made (bounded)

qrVars    == <<clock, cfg, ctor, urls, gens, fs, calls>>
mailVars  == <<smtp, smtpCtor, sent, sends>>
formVars  == <<template, form_id, responder_uri, formOp, ops>>
authVars  == <<token_file, apiClient, sessions, authOp, authOps>>
vars      == <<qrVars, mailVars, formVars, authVars>>

None == "None"

(***************************************************************************)
(* Bounds of the model.                                                    *)
(***************************************************************************)
MaxCalls == 2
MaxSends == 2
MaxOps   == 3
MaxAuthOps == 2

(***************************************************************************)
(* Characters and small string helpers.                                    *)
(***************************************************************************)
DigitChars == <<"0", "1", "2", "3", "4", "5", "6", "7", "8", "9">>
HexChars   == DigitChars \o <<"A", "B", "C", "D", "E", "F">>
Alphabet   == HexChars \o
    <<"h", "k", "j", "s", "i", "g", "n", "e", "r", "v", "t", "a", "b", "T", "Z",
      "Q", "R", "p", "d", "c", "o", "-", ".", "_", "~", ":", ",", "{", "}", "/", "?", "&",
      "=", " ", "+", "%">>

Chars    == {Alphabet[i] : i \in 1..Len(Alphabet)}
CodeTable == [c \in Chars |-> CHOOSE i \in 1..Len(Alphabet) : Alphabet[i] = c]
Code(c)  == CodeTable[c]
Digit(n) == DigitChars[n + 1]
Pad2(n)  == <<Digit((n \div 10) % 10), Digit(n % 10)>>

\* The concatenation of f(s[lo]), ..., f(s[hi]), computed by halves.
RECURSIVE FlatMap(_, _, _, _)
FlatMap(f(_), s, lo, hi) ==
    IF lo > hi THEN <<>>
    ELSE IF lo = hi THEN f(s[lo])
    ELSE LET mid == (lo + hi) \div 2
         IN  FlatMap(f, s, lo, mid) \o FlatMap(f, s, mid + 1, hi)

\* The sum of i * Code(s[i]) over lo..hi, computed by halves.
RECURSIVE WeightedSum(_, _, _)
WeightedSum(s, lo, hi) ==
    IF lo > hi THEN 0
    ELSE IF lo = hi THEN lo * Code(s[lo])
    ELSE LET mid == (lo + hi) \div 2
         IN  WeightedSum(s, lo, mid) + WeightedSum(s, mid + 1, hi)

IsPrefix(p, s) == Len(p) <= Len(s) /\ SubSeq(s, 1, Len(p)) = p

(***************************************************************************)
(* create_qr_code.py : QRCodeConfig                                        *)
(***************************************************************************)
NoCfg == [kind |-> "NoCfg"]

\* __post_init__: the outcome of validating a configuration.
PostInitSecretUnchecked(base_url, secret_key) ==
    IF base_url = <<>> THEN "RuntimeError" ELSE "ok"

PostInit(base_url, secret_key) ==
    IF base_url = <<>> THEN "RuntimeError"
    ELSE IF secret_key = <<>> THEN "RuntimeError"
    ELSE "ok"

\* str.rstrip("/"): every trailing "/" is removed.
RECURSIVE RStripSlash(_)
RStripSlash(s) ==
    IF s # <<>> /\ s[Len(s)] = "/" THEN RStripSlash(SubSeq(s, 1, Len(s) - 1))
    ELSE s

BaseUrlNormUnstripped(c) == c.base_url

\* QRCodeConfig.base_url_norm
BaseUrlNorm(c) == RStripSlash(c.base_url)

\* An environment variable: unset, or set to a string.
Unset    == [set |-> FALSE, value |-> <<>>]
SetTo(v) == [set |-> TRUE, value |-> v]

\* os.getenv(name, ""): an unset variable reads as the empty string.
Getenv(v) == IF v.set THEN v.value ELSE <<>>

(***************************************************************************)
(* The clock and pendulum's formatting.  The modelled instants are those   *)
(* of 2025-11-01 .. 2025-11-03 around the end of daylight saving time in   *)
(* America/Toronto (2025-11-02T06:00Z, 02:00 EDT -> 01:00 EST).            *)
(***************************************************************************)
UtcOffsetMinutes(tz, t) ==
    IF tz = "America/Toronto"
    THEN (IF t < 6 * 120 THEN -240 ELSE -300)
    ELSE 0

\* pendulum.now(tz): the wall-clock fields of instant t in zone tz.
NowLocal(tz, t) ==
    LET lm == (t \div 2) + UtcOffsetMinutes(tz, t)
    IN  [day |-> 2 + (lm \div 1440),
         hh  |-> (lm % 1440) \div 60,
         mm  |-> (lm % 1440) % 60,
         ss  |-> (t % 2) * 30]

FormatWithoutMinutes(f) ==
    <<"2", "0", "2", "5", "1", "1">> \o Pad2(f.day) \o <<"-">> \o Pad2(f.hh)

\* format("YYYYMMDD-HHmm")
FormatEventId(f) ==
    <<"2", "0", "2", "5", "1", "1">> \o Pad2(f.day) \o <<"-">> \o Pad2(f.hh) \o Pad2(f.mm)

\* to_iso8601_string() of a UTC instant (sub-second digits are not modelled).
ToIso8601(f) ==
    <<"2", "0", "2", "5", "-", "1", "1", "-">> \o Pad2(f.day) \o <<"T">> \o Pad2(f.hh)
        \o <<":">> \o Pad2(f.mm) \o <<":">> \o Pad2(f.ss) \o <<"Z">>

\* QRCodeGenerator._new_event_id
NewEventId(c, t) == FormatEventId(NowLocal(c.timezone, t))

(***************************************************************************)
(* itsdangerous.URLSafeSerializer(secret_key, salt).dumps(payload):        *)
(* the compact JSON of the payload, encoded into the URL-safe alphabet,    *)
(* then "." and a keyed digest of the encoded text.  The encoding is       *)
(* modelled as base16 of the character codes and the digest as a           *)
(* weighted checksum: both are functions of their arguments only, as     *)
(* base64 and HMAC are.                                                    *)
(***************************************************************************)
Digest(s) == (7 + WeightedSum(s, 1, Len(s))) % 256

Hex2(n) == <<HexChars[(n \div 16) + 1], HexChars[(n % 16) + 1]>>

EncodeTable == [c \in Chars |-> Hex2(CodeTable[c])]
UrlSafeEncode(s) ==
    [i \in 1..(2 * Len(s)) |-> EncodeTable[s[(i + 1) \div 2]][2 - (i % 2)]]

JsonCompact(payload) ==
    <<"{">> \o payload.event_id \o <<",">> \o payload.issued_at_utc \o <<"}">>

\* __init__: the serializer is bound to the secret key and the salt.
Serializer(c) == [secret_key |-> c.secret_key, salt |-> c.sign_salt]

DeriveKey(ser) == Digest(ser.salt \o <<"s", "i", "g", "n", "e", "r">> \o ser.secret_key)

\* A serializer that also signs how many calls were made before this one.
DumpsWithNonce(ser, payload, seq) ==
    LET body == UrlSafeEncode(JsonCompact(payload))
    IN  body \o <<".">> \o Hex2((DeriveKey(ser) * 17 + Digest(body) + seq) % 256)

\* serializer.dumps(payload), called after seq earlier calls of the process:
\* the result depends on the key, the salt and the payload only.
Dumps(ser, payload, seq) ==
    LET body == UrlSafeEncode(JsonCompact(payload))
    IN  body \o <<".">> \o Hex2((DeriveKey(ser) * 17 + Digest(body)) % 256)

(***************************************************************************)
(* urllib.parse.urlencode: quote_plus of every key and value, joined by    *)
(* "=" and "&".                                                            *)
(***************************************************************************)
SafeChars ==
    {HexChars[i] : i \in 1..Len(HexChars)} \cup
    {"h", "k", "j", "s", "i", "g", "n", "e", "r", "v", "t", "a", "b", "T", "Z",
     "Q", "R", "p", "d", "c", "o", "-", ".", "_", "~"}

QuoteOne(ch) ==
    IF ch \in SafeChars THEN <<ch>>
    ELSE IF ch = " " THEN <<"+">>
    ELSE CASE ch = "&" -> <<"%", "2", "6">>
           [] ch = "=" -> <<"%", "3", "D">>
           [] ch = "/" -> <<"%", "2", "F">>
           [] ch = "?" -> <<"%", "3", "F">>
           [] ch = "+" -> <<"%", "2", "B">>
           [] ch = "%" -> <<"%", "2", "5">>
           [] ch = ":" -> <<"%", "3", "A">>
           [] ch = "," -> <<"%", "2", "C">>
           [] ch = "{" -> <<"%", "7", "B">>
           [] ch = "}" -> <<"%", "7", "D">>
           [] OTHER    -> <<"%", "0", "0">>

QuoteTable == [c \in Chars |-> QuoteOne(c)]
QuoteChar(ch) == QuoteTable[ch]

QuoteNothing(s) == s

\* urllib.parse.quote_plus
QuotePlus(s) == FlatMap(QuoteChar, s, 1, Len(s))

RECURSIVE UrlEncode(_)
UrlEncode(pairs) ==
    IF pairs = <<>> THEN <<>>
    ELSE QuotePlus(Head(pairs)[1]) \o <<"=">> \o QuotePlus(Head(pairs)[2])
         \o (IF Len(pairs) > 1 THEN <<"&">> ELSE <<>>) \o UrlEncode(Tail(pairs))

EventKey == <<"e", "v", "e", "n", "t">>
SigKey   == <<"s", "i", "g">>

\* QRCodeGenerator._build_signed_url(event_id), called at instant t after seq
\* earlier calls of this generator.
BuildSignedUrl(c, event_id, t, seq) ==
    LET payload == [event_id |-> event_id,
                    issued_at_utc |-> ToIso8601(NowLocal("UTC", t))]
        sig   == Dumps(Serializer(c), payload, seq)
        query == UrlEncode(<< <<EventKey, event_id>>, <<SigKey, sig>> >>)
    IN  [url |-> BaseUrlNorm(c) \o <<"/", "?">> \o query,
         payload |-> payload,
         sig |-> sig]

(***************************************************************************)
(* Images.  An image is its QR content, its pixel size and the overlays    *)
(* composited onto it, in order.                                           *)
(***************************************************************************)
\* Byte capacity of QR versions 1..20 at error-correction level H.
CapacityH == <<7, 14, 24, 34, 44, 58, 64, 84, 98, 119,
               137, 155, 177, 194, 220, 250, 280, 310, 338, 382>>

\* qr.make(fit=True): the smallest version that holds the data.
BestFit(n) == CHOOSE v \in 1..Len(CapacityH) :
                /\ CapacityH[v] >= n
                /\ \A u \in 1..(v - 1) : CapacityH[u] < n

\* qr.make_image(): (modules + 2 * border) * box_size pixels a side.
MakeImage(url) ==
    LET side == ((17 + 4 * BestFit(Len(url))) + 2 * 4) * 10
    IN  [data |-> url, w |-> side, h |-> side, layers |-> <<>>]

ResizeSkipped(img, w, h) == img

\* Image.resize((w, h))
Resize(img, w, h) == [img EXCEPT !.w = w, !.h = h]

\* int(x * frac) for a non-negative x and a fraction num/den.
IntMul(x, frac) == (x * frac.num) \div frac.den

Abs(x) == IF x < 0 THEN -x ELSE x
Max(a, b) == IF a >= b THEN a ELSE b

ThumbnailUnshrunk(w, h, m) == [w |-> w, h |-> h]

\* Image.thumbnail((m, m)) for m >= 1: the size the logo is shrunk to, aspect
\* preserved (Pillow rounds to the nearer of floor and ceiling, at least 1).
Thumbnail(w, h, m) ==
    IF m >= w /\ m >= h THEN [w |-> w, h |-> h]
    ELSE IF m * h >= w * m
    THEN LET f == (m * w) \div h
             c == IF (m * w) % h = 0 THEN f ELSE f + 1
             x == IF Abs(w * m - f * h) <= Abs(w * m - c * h) THEN f ELSE c
         IN  [w |-> Max(x, 1), h |-> m]
    ELSE LET f == (m * h) \div w
             c == IF (m * h) % w = 0 THEN f ELSE f + 1
             y == IF f = 0 THEN 0
                  ELSE IF Abs(w * f - m * h) * c <= Abs(w * c - m * h) * f THEN f ELSE c
         IN  [w |-> m, h |-> Max(y, 1)]

\* Image.alpha_composite(overlay, (x, y)): in place, the size is unchanged.
AlphaComposite(img, kind, x, y, w, h) ==
    [img EXCEPT !.layers = Append(@, [kind |-> kind, x |-> x, y |-> y, w |-> w, h |-> h])]

\* What Image.alpha_composite does with a negative destination. The Pillow
\* version is not pinned: older releases raise ValueError ("Destination must
\* be non-negative"), newer ones composite the part that overlaps the image.
NegativeDest == {"rejected", "clipped"}

\* Lines 115-138: the logo shrunk, its white plate and both composited.
\* Image.thumbnail divides by the box height, so a box of (0, 0) raises
\* ZeroDivisionError before anything is composited.
WithLogo(c, qr_img, logo, lib) ==
    LET max_w     == IntMul(c.qr_size, c.logo_scale)
        shrunk    == Thumbnail(logo.w, logo.h, max_w)
        border_px == Max(2, IntMul(shrunk.w, c.border_frac))
        plate_w   == shrunk.w + 2 * border_px
        plate_h   == shrunk.h + 2 * border_px
        bx        == (qr_img.w - plate_w) \div 2
        by        == (qr_img.h - plate_h) \div 2
        plated    == AlphaComposite(qr_img, "plate", bx, by, plate_w, plate_h)
    IN  IF max_w = 0
        THEN [outcome |-> "ZeroDivisionError", image |-> qr_img]
        ELSE IF (bx < 0 \/ by < 0) /\ lib = "rejected"
        THEN [outcome |-> "ValueError", image |-> qr_img]
        ELSE [outcome |-> "ok",
              image |-> AlphaComposite(plated, "logo", bx + border_px, by + border_px,
                                       shrunk.w, shrunk.h)]

\* What cfg.logo_path holds: nothing, an image of some size, or something
\* that exists but is no image.
NoFile   == [kind |-> "absent"]
NotImage == [kind |-> "notimage"]
LogoImage(w, h) == [kind |-> "image", w |-> w, h |-> h]

PathExistsAlways(f) == TRUE

\* Path.exists()
PathExists(f) == f.kind # "absent"

OutPng(event_id) == <<"Q", "R", "_">> \o event_id \o <<".", "p", "n", "g">>

\* Lines 100-113 of generate_qr_code_with_image(), run at instant t as call
\* number seq: the event id, the signed URL and the QR image at qr_size.
Render(c, t, seq) ==
    LET event_id == NewEventId(c, t)
        built    == BuildSignedUrl(c, event_id, t, seq)
    IN  [event_id |-> event_id, built |-> built, at |-> t,
         out_png |-> OutPng(event_id),
         qr_img |-> Resize(MakeImage(built.url), c.qr_size, c.qr_size)]

\* Lines 115-147, after the rendering rd, with `logo` at cfg.logo_path: the
\* outcome, the steps run, and the image saved.
LogoAndSave(c, rd, logo, lib) ==
    LET base == [event_id |-> rd.event_id, built |-> rd.built, at |-> rd.at,
                 logo |-> logo, out_png |-> rd.out_png]
    IN  IF PathExists(logo)
        THEN IF logo.kind = "image"
             THEN LET done == WithLogo(c, rd.qr_img, logo, lib) IN
                  IF done.outcome = "ok"
                  THEN base @@
                       [outcome |-> "ok", returned |-> rd.out_png, image |-> done.image,
                        steps |-> <<"event_id", "sign", "render", "open_logo",
                                    "composite", "save">>]
                  ELSE base @@
                       [outcome |-> done.outcome, returned |-> <<>>, image |-> rd.qr_img,
                        steps |-> <<"event_id", "sign", "render", "open_logo">>]
             ELSE base @@
                  [outcome |-> "UnidentifiedImageError", returned |-> <<>>,
                   image |-> rd.qr_img,
                   steps |-> <<"event_id", "sign", "render", "open_logo">>]
        ELSE base @@
             [outcome |-> "ok", returned |-> rd.out_png, image |-> rd.qr_img,
              steps |-> <<"event_id", "sign", "render", "save">>]

(***************************************************************************)
(* The inputs the QR operations are exercised with.                        *)
(***************************************************************************)
BaseUrls  == {<<>>, <<"h">>, <<"h", "/">>, <<"h", "/", "/">>, <<"/">>}
DefaultSalt == <<"a", "t", "t", "e", "n", "d", "a", "n", "c", "e", "-",
                 "t", "o", "k", "e", "n">>
Salts     == {DefaultSalt, <<"s">>}
DefaultGeometry ==
    [qr_size |-> 800, logo_scale |-> [num |-> 25, den |-> 100],
     border_frac |-> [num |-> 3, den |-> 100], corner_radius |-> 18]
\* The defaults, a small image with a wide border, a logo as wide as the
\* image, and an image so small that int(qr_size * logo_scale) is 0.
Geometries ==
    {DefaultGeometry,
     [qr_size |-> 64, logo_scale |-> [num |-> 1, den |-> 2],
      border_frac |-> [num |-> 1, den |-> 4], corner_radius |-> 4],
     [qr_size |-> 64, logo_scale |-> [num |-> 1, den |-> 1],
      border_frac |-> [num |-> 1, den |-> 4], corner_radius |-> 4],
     [qr_size |-> 3, logo_scale |-> [num |-> 25, den |-> 100],
      border_frac |-> [num |-> 3, den |-> 100], corner_radius |-> 18]}
Logos     == {NoFile, NotImage, LogoImage(1000, 500), LogoImage(3, 700)}
EventIds  == {<<"a", " ", "b">>, <<"a", "&", "s", "i", "g", "=", "b">>}
\* The instants at which things happen: 05:29:00Z, 05:29:30Z, 05:30:00Z
\* (01:29 and 01:30 EDT) and 06:29:00Z (01:29 EST, after the clocks went back).
StartClock == 5 * 120 + 29 * 2
Instants   == {StartClock, StartClock + 1, StartClock + 2, StartClock + 120}
EnvBaseUrls == {Unset, SetTo(<<>>), SetTo(<<"h", "/">>)}
EnvSecrets  == {Unset, SetTo(<<>>), SetTo(<<"k">>)}

\* The configurations tried: every base URL and secret with the defaults,
\* and each other field changed on its own.
ConfigInputs ==
    {[base_url |-> b, secret_key |-> k, salt |-> DefaultSalt,
      tz |-> "America/Toronto", geo |-> DefaultGeometry] :
        b \in BaseUrls, k \in {<<>>, <<"k">>}}
    \cup
    {[base_url |-> <<"h", "/">>, secret_key |-> <<"j">>, salt |-> salt,
      tz |-> "America/Toronto", geo |-> DefaultGeometry] : salt \in Salts}
    \cup
    {[base_url |-> <<"h", "/">>, secret_key |-> <<"j">>, salt |-> DefaultSalt,
      tz |-> "UTC", geo |-> geo] : geo \in Geometries}

\* The dataclass: the given fields and the defaults of lines 30-37.
Config(base_url, secret_key, salt, tz, geo) ==
    [kind |-> "QRCodeConfig", base_url |-> base_url, secret_key |-> secret_key,
     qr_size |-> geo.qr_size, logo_scale |-> geo.logo_scale,
     border_frac |-> geo.border_frac, corner_radius |-> geo.corner_radius,
     sign_salt |-> salt, timezone |-> tz]

Keep2(s) == IF Len(s) > 2 THEN SubSeq(s, 1, 2) ELSE s

WriteFile(files, name, img) ==
    [n \in (DOMAIN files) \cup {name} |-> IF n = name THEN img ELSE files[n]]

UrlEntry(c, event_id, t, seq, built) ==
    [event_id |-> event_id, at |-> t, seq |-> seq, url |-> built.url,
     payload |-> built.payload, sig |-> built.sig]

\* What is remembered of a generate call; the image is in fs when saved.
GenEntry(r) ==
    [event_id |-> r.event_id, at |-> r.at, logo |-> r.logo, outcome |-> r.outcome,
     returned |-> r.returned, steps |-> r.steps, url |-> r.built.url]

InitQR ==
    /\ clock = StartClock
    /\ cfg = NoCfg
    /\ ctor = [via |-> None, base_url |-> <<>>, secret_key |-> <<>>, outcome |-> None]
    /\ urls = <<>>
    /\ gens = <<>>
    /\ fs = <<>>
    /\ calls = 0

\* Time passes between two calls of the generator.
Tick ==
    /\ cfg # NoCfg
    /\ \E t \in Instants : t > clock /\ clock' = t
    /\ UNCHANGED <<cfg, ctor, urls, gens, fs, calls, mailVars, formVars, authVars>>

\* QRCodeConfig(base_url=..., secret_key=..., ...) followed, when it
\* succeeds, by QRCodeGenerator(config).
Construct ==
    /\ cfg = NoCfg
    /\ \E i \in ConfigInputs :
         LET outcome == PostInit(i.base_url, i.secret_key) IN
         /\ ctor' = [via |-> "library", base_url |-> i.base_url,
                     secret_key |-> i.secret_key, outcome |-> outcome]
         /\ cfg' = IF outcome = "ok"
                   THEN Config(i.base_url, i.secret_key, i.salt, i.tz, i.geo)
                   ELSE NoCfg
    /\ UNCHANGED <<clock, urls, gens, fs, calls, mailVars, formVars, authVars>>

\* The effect of one generate_qr_code_with_image() call of generator c, with
\* whatever is at logo_path and whichever Pillow is installed.
Generated(c) ==
    \E rd \in {Render(c, clock, calls)} :
    \E logo \in Logos, lib \in NegativeDest :
    \E r \in {LogoAndSave(c, rd, logo, lib)} :
    /\ gens' = Keep2(<<GenEntry(r)>> \o gens)
    /\ urls' = Keep2(<<UrlEntry(c, r.event_id, clock, calls, r.built)>> \o urls)
    /\ fs' = IF r.outcome = "ok" THEN WriteFile(fs, r.out_png, r.image) ELSE fs
    /\ calls' = calls + 1

\* generator.generate_qr_code_with_image()
Generate ==
    /\ cfg # NoCfg
    /\ calls < MaxCalls
    /\ Generated(cfg)
    /\ UNCHANGED <<clock, cfg, ctor, mailVars, formVars, authVars>>

\* generator._build_signed_url(event_id) with an event id of the caller's.
CallBuildSignedUrl ==
    /\ cfg # NoCfg
    /\ calls < MaxCalls
    /\ \E e \in EventIds :
       \E built \in {BuildSignedUrl(cfg, e, clock, calls)} :
         urls' = Keep2(<<UrlEntry(cfg, e, clock, calls, built)>> \o urls)
    /\ calls' = calls + 1
    /\ UNCHANGED <<clock, cfg, ctor, gens, fs, mailVars, formVars, authVars>>

\* The __main__ block: both settings from the environment, defaults for the
\* rest, then one generation.
Main ==
    /\ cfg = NoCfg
    /\ calls < MaxCalls
    /\ \E eb \in EnvBaseUrls, ek \in EnvSecrets :
         LET BASE_URL == Getenv(eb)
             SECRET   == Getenv(ek)
             outcome  == PostInit(BASE_URL, SECRET)
             c        == Config(BASE_URL, SECRET, DefaultSalt, "America/Toronto",
                                DefaultGeometry)
         IN  /\ ctor' = [via |-> "main", base_url |-> BASE_URL, secret_key |-> SECRET,
                         outcome |-> outcome]
             /\ IF outcome = "ok"
                THEN cfg' = c /\ Generated(c)
                ELSE UNCHANGED <<cfg, urls, gens, fs, calls>>
    /\ UNCHANGED <<clock, mailVars, formVars, authVars>>

NextQR ==
    \/ Tick
    \/ Construct
    \/ Generate
    \/ CallBuildSignedUrl
    \/ Main

(***************************************************************************)
(* Reading a URL back: the query string after the first "?", its           *)
(* parameters split at "&" and "=", and percent-decoding.                  *)
(***************************************************************************)
Positions(s, ch) == {i \in 1..Len(s) : s[i] = ch}
MinOf(S) == CHOOSE i \in S : \A j \in S : i <= j

UnquoteAt(s, i) ==
    IF s[i] = "%"
    THEN IF i + 2 <= Len(s) /\ \E c \in Chars : QuoteOne(c) = <<"%", s[i + 1], s[i + 2]>>
         THEN <<CHOOSE c \in Chars : QuoteOne(c) = <<"%", s[i + 1], s[i + 2]>> >>
         ELSE <<"%">>
    ELSE IF (i > 1 /\ s[i - 1] = "%") \/ (i > 2 /\ s[i - 2] = "%") THEN <<>>
    ELSE IF s[i] = "+" THEN <<" ">>
    ELSE <<s[i]>>

RECURSIVE UnquoteRange(_, _, _)
UnquoteRange(s, lo, hi) ==
    IF lo > hi THEN <<>>
    ELSE IF lo = hi THEN UnquoteAt(s, lo)
    ELSE LET mid == (lo + hi) \div 2
         IN  UnquoteRange(s, lo, mid) \o UnquoteRange(s, mid + 1, hi)

\* urllib.parse.unquote_plus
UnquotePlus(s) == UnquoteRange(s, 1, Len(s))

\* The URL split into what precedes "/?" and its query parameters, when it
\* has exactly two of them.
SplitUrl(url) ==
    LET qs == Positions(url, "?") IN
    IF qs = {} \/ MinOf(qs) < 2 \/ url[MinOf(qs) - 1] # "/" THEN [ok |-> FALSE]
    ELSE LET q     == MinOf(qs)
             query == SubSeq(url, q + 1, Len(url))
             amps  == Positions(query, "&")
         IN  IF Cardinality(amps) # 1 THEN [ok |-> FALSE]
             ELSE LET a  == MinOf(amps)
                      p1 == SubSeq(query, 1, a - 1)
                      p2 == SubSeq(query, a + 1, Len(query))
                      e1 == Positions(p1, "=")
                      e2 == Positions(p2, "=")
                  IN  IF e1 = {} \/ e2 = {} THEN [ok |-> FALSE]
                      ELSE [ok |-> TRUE,
                            prefix |-> SubSeq(url, 1, q - 2),
                            key1 |-> SubSeq(p1, 1, MinOf(e1) - 1),
                            raw1 |-> SubSeq(p1, MinOf(e1) + 1, Len(p1)),
                            key2 |-> SubSeq(p2, 1, MinOf(e2) - 1),
                            raw2 |-> SubSeq(p2, MinOf(e2) + 1, Len(p2))]

(***************************************************************************)
(* Claims about create_qr_code.py, checked under SpecQR.                   *)
(***************************************************************************)
GenerationRan == calls > 0 \/ urls # <<>> \/ gens # <<>> \/ DOMAIN fs # {}

\* C1: a QRCodeConfig with an empty base_url or an empty secret_key is
\* rejected at construction with an error, and no generation step (event id,
\* signing, rendering, file write) ever runs for it, also when the __main__
\* block finds the environment variables unset.
C1_EmptyConfigRejected ==
    /\ (ctor.outcome # None /\ (ctor.base_url = <<>> \/ ctor.secret_key = <<>>))
          => (ctor.outcome = "RuntimeError" /\ cfg = NoCfg /\ ~GenerationRan)
    /\ cfg # NoCfg => (cfg.base_url # <<>> /\ cfg.secret_key # <<>>)
    /\ GenerationRan => cfg # NoCfg

C1_Witness ==
    /\ ctor.via = "main"
    /\ ctor.base_url = <<>>
    /\ ctor.secret_key = <<>>
    /\ ctor.outcome = "RuntimeError"

SameMinute(t1, t2) == (t1 \div 2) = (t2 \div 2)

SameWallClockMinute(tz, t1, t2) ==
    LET a == NowLocal(tz, t1)
        b == NowLocal(tz, t2)
    IN  a.day = b.day /\ a.hh = b.hh /\ a.mm = b.mm

BothSaved == Len(gens) = 2 /\ gens[1].outcome = "ok" /\ gens[2].outcome = "ok"

\* The newest call wrote the file that is now under its name.
LastWriteWins ==
    /\ gens[1].returned \in DOMAIN fs
    /\ fs[gens[1].returned].data = gens[1].url
    /\ (fs[gens[1].returned].layers = <<>>) <=> (gens[1].logo = NoFile)

\* C3 as stated: two calls in the same minute compute the same event id and
\* write the same file, the second replacing the first; two calls in
\* different minutes write different files.
C3_AsStated ==
    BothSaved =>
        /\ SameMinute(gens[1].at, gens[2].at)
              => /\ gens[1].event_id = gens[2].event_id
                 /\ gens[1].returned = gens[2].returned
                 /\ LastWriteWins
        /\ ~SameMinute(gens[1].at, gens[2].at)
              => gens[1].returned # gens[2].returned

\* C3 (amended): two calls at which the local wall clock of the configured
\* timezone reads the same date, hour and minute compute the same event id
\* and write the same file QR_<event_id>.png, the second replacing the first;
\* two calls at which it reads differently write different files.  Two calls
\* in the same minute are such calls, and so are two calls an hour apart
\* across the end of daylight saving time.
C3_SameWallClockMinuteSameFile ==
    BothSaved =>
        /\ SameMinute(gens[1].at, gens[2].at)
              => SameWallClockMinute(cfg.timezone, gens[1].at, gens[2].at)
        /\ SameWallClockMinute(cfg.timezone, gens[1].at, gens[2].at)
              => /\ gens[1].event_id = gens[2].event_id
                 /\ gens[1].returned = gens[2].returned
                 /\ gens[1].returned = OutPng(gens[1].event_id)
                 /\ LastWriteWins
        /\ ~SameWallClockMinute(cfg.timezone, gens[1].at, gens[2].at)
              => /\ gens[1].returned # gens[2].returned
                 /\ {gens[1].returned, gens[2].returned} \subseteq DOMAIN fs

C3_Witness ==
    /\ BothSaved
    /\ cfg.timezone = "America/Toronto"
    /\ gens[2].at = StartClock
    /\ gens[1].at = StartClock + 120
    /\ gens[1].returned = gens[2].returned
    /\ gens[1].url # gens[2].url
    /\ LastWriteWins

\* C4: with nothing at logo_path the call raises no error, opens and
\* composites nothing, and saves exactly the plain QR image of the URL at
\* qr_size x qr_size under the returned name QR_<event_id>.png.
C4_MissingLogoPlainImage ==
    \A i \in 1..Len(gens) :
        gens[i].logo = NoFile =>
            /\ gens[i].outcome = "ok"
            /\ gens[i].steps = <<"event_id", "sign", "render", "save">>
            /\ gens[i].returned = OutPng(gens[i].event_id)
            /\ i = 1 =>
                 /\ gens[i].returned \in DOMAIN fs
                 /\ fs[gens[i].returned] =
                        [data |-> gens[i].url, w |-> cfg.qr_size, h |-> cfg.qr_size,
                         layers |-> <<>>]

C4_Witness ==
    /\ Len(gens) = 2
    /\ gens[1].logo = NoFile
    /\ gens[2].logo = LogoImage(1000, 500)
    /\ gens[1].returned = gens[2].returned
    /\ fs[gens[1].returned].layers = <<>>

\* C5: every image written is qr_size x qr_size pixels, with or without a
\* logo and whatever the logo's size, logo_scale and border_frac.
C5_SavedImageIsSquareQrSize ==
    \A n \in DOMAIN fs : fs[n].w = cfg.qr_size /\ fs[n].h = cfg.qr_size

C5_Witness ==
    /\ cfg # NoCfg
    /\ cfg.qr_size = 64
    /\ \E n \in DOMAIN fs : Len(fs[n].layers) = 2 /\ fs[n].w = 64

\* C6: the URL is the base URL without its trailing slashes, then "/?",
\* then exactly the two parameters event and sig, percent-encoded; the
\* decoded event parameter is the payload's event_id, the decoded sig
\* parameter is the signature, and the payload has exactly the keys
\* event_id and issued_at_utc.
C6_UrlShape ==
    \A i \in 1..Len(urls) :
        LET u == urls[i]
            p == SplitUrl(u.url)
        IN  /\ p.ok
            /\ IsPrefix(p.prefix, cfg.base_url)
            /\ \A k \in (Len(p.prefix) + 1)..Len(cfg.base_url) : cfg.base_url[k] = "/"
            /\ (p.prefix = <<>> \/ p.prefix[Len(p.prefix)] # "/")
            /\ p.key1 = EventKey
            /\ p.key2 = SigKey
            /\ \A k \in 1..Len(p.raw1) : p.raw1[k] \in SafeChars \cup {"%", "+"}
            /\ \A k \in 1..Len(p.raw2) : p.raw2[k] \in SafeChars \cup {"%", "+"}
            /\ UnquotePlus(p.raw1) = u.payload.event_id
            /\ UnquotePlus(p.raw2) = u.sig
            /\ u.payload.event_id = u.event_id
            /\ DOMAIN u.payload = {"event_id", "issued_at_utc"}

C6_Witness ==
    /\ cfg # NoCfg
    /\ cfg.base_url = <<"h", "/", "/">>
    /\ Len(urls) = 2
    /\ urls[1].event_id = <<"a", "&", "s", "i", "g", "=", "b">>
    /\ urls[2].event_id = NewEventId(cfg, urls[2].at)
    /\ IsPrefix(<<"h", "/", "?", "e", "v", "e", "n", "t", "=", "a", "%", "2", "6">>,
                urls[1].url)

\* The logo branch as the file of the latest generation g shows it: two
\* overlays, the plate first and the logo second; the logo no larger than
\* int(qr_size * logo_scale) either way; the plate larger than the logo by
\* border_px = max(2, int(logo width * border_frac)) on every side and
\* centred; the plate inside the image and the logo inside the plate.
LogoPlaced(g) ==
    /\ g.outcome = "ok"
    /\ g.returned \in DOMAIN fs
    /\ LET f         == fs[g.returned]
           max_w     == IntMul(cfg.qr_size, cfg.logo_scale)
           plate     == f.layers[1]
           lg        == f.layers[2]
           border_px == Max(2, IntMul(lg.w, cfg.border_frac))
       IN  /\ Len(f.layers) = 2
           /\ plate.kind = "plate" /\ lg.kind = "logo"
           /\ lg.w >= 1 /\ lg.h >= 1
           /\ lg.w <= max_w /\ lg.h <= max_w
           /\ lg.w <= g.logo.w /\ lg.h <= g.logo.h
           /\ plate.w = lg.w + 2 * border_px
           /\ plate.h = lg.h + 2 * border_px
           /\ plate.x = (cfg.qr_size - plate.w) \div 2
           /\ plate.y = (cfg.qr_size - plate.h) \div 2
           /\ lg.x = plate.x + border_px
           /\ lg.y = plate.y + border_px
           /\ plate.x >= 0 /\ plate.y >= 0
           /\ plate.x + plate.w <= f.w /\ plate.y + plate.h <= f.h
           /\ lg.x - plate.x >= 2 /\ lg.y - plate.y >= 2
           /\ (plate.x + plate.w) - (lg.x + lg.w) >= 2
           /\ (plate.y + plate.h) - (lg.y + lg.h) >= 2

\* The shrunk logo with its border is no larger than the image, and the box
\* it is shrunk to is not empty.
PlateFits(c, logo) ==
    LET max_w == IntMul(c.qr_size, c.logo_scale) IN
    /\ max_w >= 1
    /\ LET shrunk    == Thumbnail(logo.w, logo.h, max_w)
           border_px == Max(2, IntMul(shrunk.w, c.border_frac))
       IN  /\ shrunk.w + 2 * border_px <= c.qr_size
           /\ shrunk.h + 2 * border_px <= c.qr_size

\* C11 as stated: whenever the logo file is an image, the generation
\* succeeds and its file shows the plate inside the QR image and the logo
\* inside the plate with at least 2 pixels on every side.
C11_AsStated ==
    (gens # <<>> /\ gens[1].logo.kind = "image") => LogoPlaced(gens[1])

\* C11: when the logo file is an image, int(qr_size * logo_scale) is at
\* least 1 and the shrunk logo plus twice border_px is no larger than
\* qr_size either way, the logo is shrunk to fit int(qr_size * logo_scale),
\* the plate is larger by border_px = max(2, int(width * border_frac)) on
\* every side and centred, the plate is composited first and the logo second
\* at border_px inside it, so the plate lies within the image and the logo
\* within the plate with at least 2 pixels on every side.
C11_LogoPlacedWhenPlateFits ==
    (gens # <<>> /\ gens[1].logo.kind = "image" /\ PlateFits(cfg, gens[1].logo))
        => LogoPlaced(gens[1])

\* A 3 x 700 logo under the defaults: shrunk to 1 x 200 on a 5 x 204 plate,
\* the border at its minimum of 2.
C11_Witness ==
    /\ gens # <<>>
    /\ gens[1].logo = LogoImage(3, 700)
    /\ cfg.qr_size = 800
    /\ PlateFits(cfg, gens[1].logo)
    /\ gens[1].returned \in DOMAIN fs
    /\ fs[gens[1].returned].layers =
          <<[kind |-> "plate", x |-> 397, y |-> 298, w |-> 5, h |-> 204],
            [kind |-> "logo", x |-> 399, y |-> 300, w |-> 1, h |-> 200]>>

\* C15: for every configuration QRCodeConfig accepts, the normalized base
\* URL is non-empty and does not end with "/", normalizing it again changes
\* nothing, and no signed URL built from it starts with "/?event=".
C15_NormalizedBaseUrlNonEmpty ==
    cfg # NoCfg =>
        /\ BaseUrlNorm(cfg) # <<>>
        /\ BaseUrlNorm(cfg)[Len(BaseUrlNorm(cfg))] # "/"
        /\ RStripSlash(BaseUrlNorm(cfg)) = BaseUrlNorm(cfg)
        /\ \A i \in 1..Len(urls) :
              ~IsPrefix(<<"/", "?", "e", "v", "e", "n", "t", "=">>, urls[i].url)

(***************************************************************************)
(* email_utilities/smtp_client.py                                          *)
(***************************************************************************)
NoClient == [kind |-> "NoClient"]
NoSend   == [kind |-> "NoSend"]

\* A Python value that is a str or None.
PyNone   == [none |-> TRUE, s |-> <<>>]
PyStr(s) == [none |-> FALSE, s |-> s]

\* SMTPClient._check_env_vars: both tests are `is None`.
CheckEnvVars(c) ==
    IF c.sender_email_address.none THEN "ValueError"
    ELSE IF c.google_smtp_app_passwd.none THEN "ValueError"
    ELSE "ok"

\* SMTPClient.__init__: the SMTPConfig built from the environment.
SMTPConfig(addr, pass) ==
    [kind |-> "SMTPConfig",
     sender_email_address |-> PyStr(Getenv(addr)),
     google_smtp_app_passwd |-> PyStr(Getenv(pass)),
     smtp_server |-> "smtp.gmail.com", smtp_port |-> 465]

\* _add_attachments: the first attachment that cannot be attached decides.
RECURSIVE AddAttachments(_)
AddAttachments(files) ==
    IF files = <<>> THEN "ok"
    ELSE IF Head(files) = "missing" THEN "FileNotFoundError"
    ELSE IF Head(files) = "unreadable" THEN "PermissionError"
    ELSE AddAttachments(Tail(files))

BuildEmailMessageHtmlUnchecked(c, m) ==
    IF m.plain_text_body = <<>> THEN [outcome |-> "RuntimeError"]
    ELSE IF m.subject = <<>> THEN [outcome |-> "RuntimeError"]
    ELSE [outcome |-> AddAttachments(m.attachments)]

\* SMTPClient._build_email_message
BuildEmailMessage(c, m) ==
    IF m.plain_text_body = <<>> THEN [outcome |-> "RuntimeError"]
    ELSE IF m.html_body = <<>> THEN [outcome |-> "RuntimeError"]
    ELSE IF m.subject = <<>> THEN [outcome |-> "RuntimeError"]
    ELSE [outcome |-> AddAttachments(m.attachments)]

\* The exception classes the SMTP phase can raise, each with its bases
\* (smtplib: SMTPException is an OSError).
Ancestors(exc) ==
    CASE exc = "SMTPConnectError"        -> {"SMTPConnectError", "SMTPException", "Exception"}
      [] exc = "SMTPAuthenticationError" -> {"SMTPAuthenticationError", "SMTPException", "Exception"}
      [] exc = "SMTPSenderRefused"       -> {"SMTPSenderRefused", "SMTPException", "Exception"}
      [] exc = "SMTPRecipientsRefused"   -> {"SMTPRecipientsRefused", "SMTPException", "Exception"}
      [] exc = "SMTPServerDisconnected"  -> {"SMTPServerDisconnected", "SMTPException", "Exception"}
      [] exc = "ConnectionRefusedError"  -> {"ConnectionRefusedError", "Exception"}
      [] exc = "SSLError"                -> {"SSLError", "Exception"}

ExceptClausesNamedOnly ==
    <<"SMTPConnectError", "SMTPAuthenticationError", "SMTPSenderRefused">>

\* The except clauses of send_email, in order; every one returns False.
ExceptClauses ==
    <<"SMTPConnectError", "SMTPAuthenticationError", "SMTPSenderRefused",
      "SMTPException", "Exception">>

\* The index of the clause that catches exc, or 0 when none does.
Catch(exc) ==
    IF \E i \in 1..Len(ExceptClauses) : ExceptClauses[i] \in Ancestors(exc)
    THEN CHOOSE i \in 1..Len(ExceptClauses) :
            /\ ExceptClauses[i] \in Ancestors(exc)
            /\ \A j \in 1..(i - 1) : ExceptClauses[j] \notin Ancestors(exc)
    ELSE 0

ConnectOutcomes == {"ok", "SMTPConnectError", "ConnectionRefusedError", "SSLError",
                    "SMTPServerDisconnected"}
LoginOutcomes   == {"ok", "SMTPAuthenticationError", "SMTPServerDisconnected"}
SendOutcomes    == {"ok", "SMTPSenderRefused", "SMTPRecipientsRefused",
                    "SMTPServerDisconnected"}
\* What the server does at connect, login and send: a step is reached only
\* when the steps before it succeeded.
ServerScripts ==
    {<<co, "ok", "ok">> : co \in ConnectOutcomes}
      \cup {<<"ok", lo, "ok">> : lo \in LoginOutcomes}
      \cup {<<"ok", "ok", so>> : so \in SendOutcomes}

\* Lines 170-194: the SMTP phase, given what the server does at each step.
\* The events are the network operations made, in order.
SmtpPhase(c, co, lo, so) ==
    LET connect == [op |-> "connect", result |-> co,
                    user |-> <<>>, password |-> <<>>]
        login   == [op |-> "login", result |-> lo,
                    user |-> c.sender_email_address.s,
                    password |-> c.google_smtp_app_passwd.s]
        send    == [op |-> "send_message", result |-> so,
                    user |-> <<>>, password |-> <<>>]
        raised  == IF co # "ok" THEN co ELSE IF lo # "ok" THEN lo ELSE so
        events  == IF co # "ok" THEN <<connect>>
                   ELSE IF lo # "ok" THEN <<connect, login>>
                   ELSE <<connect, login, send>>
    IN  IF raised = "ok"
        THEN [outcome |-> "returned", value |-> TRUE, raised |-> "ok", events |-> events]
        ELSE IF Catch(raised) # 0
        THEN [outcome |-> "returned", value |-> FALSE, raised |-> raised,
              events |-> events]
        ELSE [outcome |-> "raised", value |-> FALSE, raised |-> raised,
              events |-> events]

\* EmailClient.send_email: True if the client's send_email returned a true
\* value, else False; an exception passes through.
EmailClientSendEmail(inner) ==
    [inner EXCEPT !.value = IF inner.outcome = "returned" /\ inner.value
                            THEN TRUE ELSE FALSE]

\* SMTPClient.send_email(email_contents); m is NoMessage for None.
NoMessage == [kind |-> "None"]
SendEmail(c, m, co, lo, so) ==
    IF m = NoMessage
    THEN [outcome |-> "raised", value |-> FALSE, raised |-> "SMTPEmailException",
          events |-> <<>>]
    ELSE LET built == BuildEmailMessage(c, m) IN
         IF built.outcome # "ok"
         THEN [outcome |-> "raised", value |-> FALSE, raised |-> built.outcome,
               events |-> <<>>]
         ELSE SmtpPhase(c, co, lo, so)

Texts == {<<>>, <<"t">>}
AttachmentLists == {<<>>, <<"file">>, <<"missing">>, <<"file", "missing">>,
                    <<"unreadable">>}
Messages ==
    {NoMessage} \cup
    [kind : {"EmailMessage"}, destination_email_address : {<<"a">>},
     subject : Texts, plain_text_body : Texts, html_body : Texts,
     attachments : AttachmentLists]
EnvValues == {Unset, SetTo(<<>>), SetTo(<<"a">>)}

InitMail ==
    /\ smtp = NoClient
    /\ smtpCtor = [addr |-> Unset, pass |-> Unset, outcome |-> None]
    /\ sent = NoSend
    /\ sends = 0

\* SMTPClient() or EmailClient(): the configuration is read from the
\* environment and checked.
ConstructClient ==
    /\ smtp = NoClient
    /\ \E addr \in EnvValues, pass \in EnvValues :
         LET c == SMTPConfig(addr, pass)
             outcome == CheckEnvVars(c)
         IN  /\ smtpCtor' = [addr |-> addr, pass |-> pass, outcome |-> outcome]
             /\ smtp' = IF outcome = "ok" THEN c ELSE NoClient
    /\ UNCHANGED <<sent, sends, qrVars, formVars, authVars>>

\* client.send_email(message), directly or through EmailClient.send_email,
\* which passes the boolean on and lets an exception through.
CallSendEmail ==
    /\ smtp # NoClient
    /\ sends < MaxSends
    /\ \E m \in Messages, sc \in ServerScripts, via \in {"SMTPClient", "EmailClient"} :
         LET r == SendEmail(smtp, m, sc[1], sc[2], sc[3]) IN
         sent' = [kind |-> "Send", via |-> via, message |-> m,
                  result |-> IF via = "EmailClient" THEN EmailClientSendEmail(r) ELSE r]
    /\ sends' = sends + 1
    /\ UNCHANGED <<smtp, smtpCtor, qrVars, formVars, authVars>>

NextMail ==
    \/ ConstructClient
    \/ CallSendEmail

(***************************************************************************)
(* Claims about smtp_client.py, checked under SpecMail.                    *)
(***************************************************************************)
WellFormed(m) ==
    /\ m # NoMessage
    /\ m.subject # <<>>
    /\ m.plain_text_body # <<>>
    /\ m.html_body # <<>>
    /\ \A i \in 1..Len(m.attachments) : m.attachments[i] = "file"

\* C7: send_email makes no SMTP network operation unless the message was
\* built: with an empty subject, plain-text body or HTML body, or an
\* attachment that is not there, it raises before any connect, login or send.
C7_NoNetworkBeforeMessageBuilt ==
    sent # NoSend =>
        /\ ~WellFormed(sent.message)
              => /\ sent.result.outcome = "raised"
                 /\ sent.result.raised \in {"SMTPEmailException", "RuntimeError",
                                            "FileNotFoundError", "PermissionError"}
                 /\ sent.result.events = <<>>
        /\ sent.result.events # <<>> => WellFormed(sent.message)

C7_Witness ==
    /\ sent # NoSend
    /\ sent.message # NoMessage
    /\ sent.message.html_body = <<>>
    /\ sent.message.subject # <<>>
    /\ sent.message.plain_text_body # <<>>
    /\ sent.message.attachments = <<"file">>
    /\ sent.result.outcome = "raised"
    /\ sent.result.events = <<>>

AllSucceededInOrder(events) ==
    /\ Len(events) = 3
    /\ events[1].op = "connect" /\ events[1].result = "ok"
    /\ events[2].op = "login" /\ events[2].result = "ok"
    /\ events[3].op = "send_message" /\ events[3].result = "ok"

C9_MissingCredentialsRejected ==
    /\ (smtpCtor.outcome # None
          /\ (Getenv(smtpCtor.addr) = <<>> \/ Getenv(smtpCtor.pass) = <<>>))
          => (smtpCtor.outcome = "ValueError" /\ smtp = NoClient)
    /\ sent # NoSend =>
          \A i \in 1..Len(sent.result.events) :
              sent.result.events[i].op = "login"
                  => /\ sent.result.events[i].user # <<>>
                     /\ sent.result.events[i].password # <<>>

(***************************************************************************)
(* google_apis/forms : FormsAPIClient, GoogleFormTemplate, GoogleForm      *)
(***************************************************************************)
\* An HTTP response of the Forms API: a status and, on success, the JSON
\* (its formId and responderUri keys, None when absent, and the rest).
OkResponse(formId, uri, body) ==
    [status |-> 200, formId |-> formId, responderUri |-> uri, body |-> body]
ErrorResponse(status) ==
    [status |-> status, formId |-> None, responderUri |-> None, body |-> None]

RaiseForStatusIgnored(r) == "ok"

\* requests.Response.raise_for_status()
RaiseForStatus(r) == IF r.status >= 400 THEN "HTTPError" ELSE "ok"

\* FormsAPIClient.create_form / batch_update / get_form: the request made
\* and what the method does with the response r.
ApiCall(method, formId, r) ==
    [method |-> method, formId |-> formId, status |-> r.status,
     outcome |-> RaiseForStatus(r), response |-> r]

\* GoogleFormTemplate.__init__: batch_update or {"requests": []}
GoogleFormTemplate(title, requests) ==
    [title |-> title, batch_update |-> [requests |-> requests]]

\* GoogleFormTemplate.from_dict for data with a "title_header": the title,
\* and the form body when it has a "requests" key.
FromDict(title, form_body) ==
    GoogleFormTemplate(title, IF form_body.has_requests THEN form_body.requests
                              ELSE <<>>)

TemplateRequestsAssumed(tmpl) == <<"r1">>

\* self.template.batch_update.get("requests", [])
TemplateRequests(tmpl) == tmpl.batch_update.requests

\* GoogleForm.create_and_apply, given the responses r1, r2, r3 the server
\* would give to create_form, batch_update and get_form.
CreateAndApply(tmpl, fid, uri, r1, r2, r3) ==
    LET c1 == ApiCall("create_form", tmpl.title, r1) IN
    IF c1.outcome # "ok"
    THEN [outcome |-> "HTTPError", form_id |-> fid, responder_uri |-> uri,
          calls |-> <<c1>>, returned |-> None]
    ELSE LET newId  == r1.formId
             newUri == r1.responderUri
             reqs   == TemplateRequests(tmpl)
             c2     == ApiCall("batch_update", newId, r2)
             c3     == ApiCall("get_form", newId, r3)
             before == IF reqs # <<>> THEN <<c1, c2>> ELSE <<c1>>
         IN  IF reqs # <<>> /\ c2.outcome # "ok"
             THEN [outcome |-> "HTTPError", form_id |-> newId, responder_uri |-> newUri,
                   calls |-> before, returned |-> None]
             ELSE IF c3.outcome # "ok"
             THEN [outcome |-> "HTTPError", form_id |-> newId, responder_uri |-> newUri,
                   calls |-> Append(before, c3), returned |-> None]
             ELSE [outcome |-> "ok", form_id |-> newId, responder_uri |-> newUri,
                   calls |-> Append(before, c3), returned |-> r3.body]

NotSetNever(fid) == FALSE

\* not self.form_id: true of None and of the empty string.
NotSet(fid) == fid = None \/ fid = ""

\* GoogleForm.append_items(requests_block)
AppendItems(fid, uri, r) ==
    IF NotSet(fid)
    THEN [outcome |-> "RuntimeError", form_id |-> fid, responder_uri |-> uri,
          calls |-> <<>>, returned |-> None]
    ELSE LET c == ApiCall("batch_update", fid, r) IN
         [outcome |-> c.outcome, form_id |-> fid, responder_uri |-> uri,
          calls |-> <<c>>, returned |-> IF c.outcome = "ok" THEN r.body ELSE None]

\* GoogleForm.refresh()
Refresh(fid, uri, r) ==
    IF NotSet(fid)
    THEN [outcome |-> "RuntimeError", form_id |-> fid, responder_uri |-> uri,
          calls |-> <<>>, returned |-> None]
    ELSE LET c == ApiCall("get_form", fid, r) IN
         [outcome |-> c.outcome, form_id |-> fid, responder_uri |-> uri,
          calls |-> <<c>>, returned |-> IF c.outcome = "ok" THEN r.body ELSE None]

FormIds == {"f1", "f2"}
\* Answers to create_form: a new form, a JSON without the two keys, an error.
CreateResponses == {OkResponse(f, "uri-" \o f, "created") : f \in FormIds}
                     \cup {OkResponse(None, None, "created")}
                     \cup {ErrorResponse(403), ErrorResponse(500)}
\* Answers to a batch_update and to a get_form that address form f.
BatchResponses(f) == {OkResponse(f, None, "replies"), ErrorResponse(404),
                      ErrorResponse(500)}
GetResponses(f)   == {OkResponse(f, "uri-" \o f, "form"), ErrorResponse(404),
                      ErrorResponse(500)}
RequestLists == {<<>>, <<"r1">>, <<"r1", "r2">>}
\* The "form_body" of the data given to from_dict.
FormBodies == {[has_requests |-> FALSE, requests |-> <<>>],
               [has_requests |-> TRUE, requests |-> <<"r3">>]}

NoTemplate == [title |-> None, batch_update |-> [requests |-> <<>>]]

InitForms ==
    /\ template = NoTemplate
    /\ form_id = None
    /\ responder_uri = None
    /\ formOp = [op |-> None, before |-> None, beforeUri |-> None, outcome |-> None,
                 calls |-> <<>>, returned |-> None]
    /\ ops = 0

Applied(op, r) ==
    /\ form_id' = r.form_id
    /\ responder_uri' = r.responder_uri
    /\ formOp' = [op |-> op, before |-> form_id, beforeUri |-> responder_uri,
                  outcome |-> r.outcome, calls |-> r.calls, returned |-> r.returned]
    /\ ops' = ops + 1
    /\ UNCHANGED <<template, qrVars, mailVars, authVars>>

\* GoogleForm(client, template): no form id, no responder URI yet.
NewGoogleForm ==
    /\ template = NoTemplate
    /\ template' \in {GoogleFormTemplate("Attendance", rs) : rs \in RequestLists}
                       \cup {FromDict("Practice", b) : b \in FormBodies}
    /\ UNCHANGED <<form_id, responder_uri, formOp, ops, qrVars, mailVars, authVars>>

CallCreateAndApply ==
    /\ template # NoTemplate
    /\ ops < MaxOps
    /\ \E r1 \in CreateResponses :
       \E r2 \in BatchResponses(r1.formId), r3 \in GetResponses(r1.formId) :
         Applied("create_and_apply",
                 CreateAndApply(template, form_id, responder_uri, r1, r2, r3))

CallAppendItems ==
    /\ template # NoTemplate
    /\ ops < MaxOps
    /\ \E r \in BatchResponses(form_id) :
         Applied("append_items", AppendItems(form_id, responder_uri, r))

CallRefresh ==
    /\ template # NoTemplate
    /\ ops < MaxOps
    /\ \E r \in GetResponses(form_id) :
         Applied("refresh", Refresh(form_id, responder_uri, r))

NextForms ==
    \/ NewGoogleForm
    \/ CallCreateAndApply
    \/ CallAppendItems
    \/ CallRefresh

(***************************************************************************)
(* Claims about the Forms modules, checked under SpecForms.                *)
(***************************************************************************)
\* C10: an HTTP error answer to create_form, batch_update or get_form leaves
\* the operation as a raised HTTPError, and the failing call is the last one
\* the operation issues; when create_form fails, form_id and responder_uri
\* are what they were (unset, if they were unset).
C10_HttpErrorPropagates ==
    formOp.op # None =>
        /\ \A i \in 1..Len(formOp.calls) :
              formOp.calls[i].status >= 400
                  => (i = Len(formOp.calls) /\ formOp.outcome = "HTTPError")
        /\ formOp.outcome = "HTTPError"
              => /\ formOp.calls # <<>>
                 /\ formOp.calls[Len(formOp.calls)].status >= 400
                 /\ formOp.returned = None
        /\ (formOp.op = "create_and_apply" /\ formOp.calls[1].status >= 400)
              => /\ Len(formOp.calls) = 1
                 /\ form_id = formOp.before
                 /\ responder_uri = formOp.beforeUri

C10_Witness ==
    /\ formOp.op = "create_and_apply"
    /\ template.batch_update.requests # <<>>
    /\ formOp.outcome = "HTTPError"
    /\ Len(formOp.calls) = 1
    /\ formOp.calls[1].method = "create_form"
    /\ form_id = None
    /\ ops = 1

\* The calls create_and_apply makes when none of them fails.
ExpectedMethods ==
    <<"create_form">>
        \o (IF template.batch_update.requests # <<>> THEN <<"batch_update">> ELSE <<>>)
        \o <<"get_form">>

\* C12: create_and_apply calls create_form(template.title) first, sets
\* form_id and responder_uri from its answer, then calls batch_update once
\* exactly when the template has requests, then get_form last, both with the
\* form id create_form returned; get_form's result is what is returned; a
\* failing call ends the sequence, so nothing follows a failed create_form.
C12_CallOrder ==
    formOp.op = "create_and_apply" =>
        LET cs == formOp.calls
            n  == Len(cs)
        IN  /\ n >= 1 /\ n <= Len(ExpectedMethods)
            /\ \A i \in 1..n : cs[i].method = ExpectedMethods[i]
            /\ cs[1].formId = template.title
            /\ \A i \in 1..(n - 1) : cs[i].outcome = "ok"
            /\ n < Len(ExpectedMethods) => cs[n].outcome # "ok"
            /\ cs[1].outcome = "ok" =>
                  /\ form_id = cs[1].response.formId
                  /\ responder_uri = cs[1].response.responderUri
                  /\ \A i \in 2..n : cs[i].formId = cs[1].response.formId
            /\ formOp.outcome = "ok" <=> cs[n].outcome = "ok"
            /\ formOp.outcome = "ok" =>
                  /\ n = Len(ExpectedMethods)
                  /\ formOp.returned = cs[n].response.body

\* A second create_and_apply of a template with requests: three calls, the
\* last two addressed to the new form id and not to the earlier one.
C12_Witness ==
    /\ formOp.op = "create_and_apply"
    /\ formOp.outcome = "ok"
    /\ formOp.before = "f1"
    /\ form_id = "f2"
    /\ Len(formOp.calls) = 3
    /\ formOp.calls[2].method = "batch_update"
    /\ formOp.calls[2].formId = "f2"
    /\ formOp.calls[3].formId = "f2"
    /\ formOp.returned = "form"

\* C13: whatever create_and_apply, append_items and refresh calls came
\* before, an append_items or refresh made while form_id is unset raises
\* RuntimeError without any API call, and one made while it is set issues
\* exactly one call, batch_update or get_form, with that form_id; either way
\* form_id and responder_uri are what they were.
C13_GuardedByFormId ==
    formOp.op \in {"append_items", "refresh"} =>
        /\ form_id = formOp.before
        /\ responder_uri = formOp.beforeUri
        /\ IF formOp.before = None
           THEN formOp.outcome = "RuntimeError" /\ formOp.calls = <<>>
           ELSE /\ formOp.outcome # "RuntimeError"
                /\ Len(formOp.calls) = 1
                /\ formOp.calls[1].formId = formOp.before
                /\ formOp.calls[1].method =
                      (IF formOp.op = "append_items" THEN "batch_update"
                                                     ELSE "get_form")

\* A refresh refused as the third operation: nothing before it has set
\* form_id, though a create_and_apply was tried.
C13_Witness ==
    /\ formOp.op = "refresh"
    /\ ops = MaxOps
    /\ form_id = None
    /\ formOp.outcome = "RuntimeError"
    /\ formOp.calls = <<>>

(***************************************************************************)
(* google_apis/forms/api_client.py : credentials and session               *)
(* GoogleForm above is exercised with a client that has its session; how   *)
(* a client comes by it is modelled here.                                  *)
(***************************************************************************)
\* google.oauth2.credentials.Credentials: whether an access token, an
\* expiry in the past and a refresh token are there.
Credentials(token, expired, refresh_token) ==
    [kind |-> "Credentials", token |-> token, expired |-> expired,
     refresh_token |-> refresh_token]
\* creds = None
NoCreds   == [kind |-> "None", token |-> FALSE, expired |-> FALSE,
              refresh_token |-> FALSE]
\* A token file from_authorized_user_file cannot read (it raises ValueError).
Malformed == [kind |-> "Malformed", token |-> FALSE, expired |-> FALSE,
              refresh_token |-> FALSE]
\* Credentials as a successful refresh or OAuth flow leaves them.
Fresh     == Credentials(TRUE, FALSE, TRUE)

ValidAlways(c) == TRUE

\* Credentials.valid: there is a token and it has not expired.
Valid(c) == c.token /\ ~c.expired

\* What is at token_path.
Absent       == [exists |-> FALSE, creds |-> NoCreds]
Stored(c)    == [exists |-> TRUE, creds |-> c]
TokenFiles   ==
    {Absent, Stored(Malformed)}
        \cup {Stored(Credentials(t, e, r)) : t \in BOOLEAN, e \in BOOLEAN, r \in BOOLEAN}

\* FormsAPIClient._get_credentials(), given how a refresh and an OAuth flow
\* would end: the steps taken, the credentials returned and the token file.
GetCredentials(file, refresh_result, flow_result) ==
    LET creds == IF file.exists THEN file.creds ELSE NoCreds
        load  == IF file.exists THEN <<"load">> ELSE <<>>
    IN  IF creds.kind = "Malformed"
        THEN [outcome |-> "ValueError", creds |-> NoCreds, file |-> file, steps |-> load]
        ELSE IF creds.kind = "None" \/ ~Valid(creds)
        THEN IF creds.kind # "None" /\ creds.expired /\ creds.refresh_token
             THEN IF refresh_result = "ok"
                  THEN [outcome |-> "ok", creds |-> Fresh, file |-> Stored(Fresh),
                        steps |-> load \o <<"refresh", "write">>]
                  ELSE [outcome |-> refresh_result, creds |-> NoCreds, file |-> file,
                        steps |-> load \o <<"refresh">>]
             ELSE IF flow_result = "ok"
                  THEN [outcome |-> "ok", creds |-> Fresh, file |-> Stored(Fresh),
                        steps |-> load \o <<"flow", "write">>]
                  ELSE [outcome |-> flow_result, creds |-> NoCreds, file |-> file,
                        steps |-> load \o <<"flow">>]
        ELSE [outcome |-> "ok", creds |-> creds, file |-> file, steps |-> load]

NoSession == [kind |-> "None", creds |-> NoCreds, serial |-> 0]
\* AuthorizedSession(credentials), the serial-th one made for the client.
AuthorizedSession(creds, serial) ==
    [kind |-> "AuthorizedSession", creds |-> creds, serial |-> serial]

\* FormsAPIClient._create_session()
CreateSession(file, made, refresh_result, flow_result) ==
    LET got == GetCredentials(file, refresh_result, flow_result) IN
    [outcome |-> got.outcome, file |-> got.file, steps |-> got.steps,
     session |-> IF got.outcome = "ok" THEN AuthorizedSession(got.creds, made + 1)
                 ELSE NoSession,
     made |-> IF got.outcome = "ok" THEN made + 1 ELSE made]

\* The session property: the client's session, made first if there is none.
Session(session, file, made, refresh_result, flow_result) ==
    IF session = NoSession
    THEN CreateSession(file, made, refresh_result, flow_result)
    ELSE [outcome |-> "ok", file |-> file, steps |-> <<>>, session |-> session,
          made |-> made]

RefreshResults == {"ok", "RefreshError"}
\* The OAuth flow ends with credentials, or fails at the client secrets file.
FlowResults    == {"ok", "FileNotFoundError"}
Methods        == {"create_form", "batch_update", "get_form"}

NoApiClient == [exists |-> FALSE, session |-> NoSession]
NoRequest   == [method |-> None, formId |-> None, status |-> 0, outcome |-> None,
                response |-> ErrorResponse(0)]

InitAuth ==
    /\ token_file = Absent
    /\ apiClient = NoApiClient
    /\ sessions = 0
    /\ authOp = [op |-> None, before |-> NoSession, file |-> Absent, steps |-> <<>>,
                 after |-> Absent, outcome |-> None, used |-> NoSession,
                 request |-> NoRequest]
    /\ authOps = 0

\* Outside the program: the token file is put there, edited or removed, or
\* the stored token expires.
TokenFileChanges ==
    /\ \E f \in TokenFiles : f # token_file /\ token_file' = f
    /\ UNCHANGED <<apiClient, sessions, authOp, authOps, qrVars, mailVars, formVars>>

\* What a client operation that asked for the session leaves behind.
Authorized(op, got, request) ==
    /\ token_file' = got.file
    /\ sessions' = got.made
    /\ authOp' = [op |-> op, before |-> apiClient.session, file |-> token_file,
                  after |-> got.file, steps |-> got.steps, outcome |-> got.outcome,
                  used |-> got.session, request |-> request]

\* FormsAPIClient(config, auto_session)
NewFormsAPIClient ==
    /\ ~apiClient.exists
    /\ \E auto_session \in BOOLEAN, rr \in RefreshResults, fr \in FlowResults :
         IF auto_session
         THEN \E got \in {CreateSession(token_file, 0, rr, fr)} :
                /\ Authorized("__init__", got, NoRequest)
                /\ apiClient' = IF got.outcome = "ok"
                                THEN [exists |-> TRUE, session |-> got.session]
                                ELSE NoApiClient
         ELSE /\ apiClient' = [exists |-> TRUE, session |-> NoSession]
              /\ UNCHANGED <<token_file, sessions, authOp>>
    /\ UNCHANGED <<authOps, qrVars, mailVars, formVars>>

\* client.create_form / batch_update / get_form: the session property, then
\* the request through the session.
ClientRequest ==
    /\ apiClient.exists
    /\ authOps < MaxAuthOps
    /\ \E m \in Methods, rr \in RefreshResults, fr \in FlowResults,
          r \in GetResponses("f1") :
       \E got \in {Session(apiClient.session, token_file, sessions, rr, fr)} :
         /\ Authorized(m, got,
                       IF got.outcome = "ok" THEN ApiCall(m, "f1", r) ELSE NoRequest)
         /\ apiClient' = [exists |-> TRUE, session |-> got.session]
    /\ authOps' = authOps + 1
    /\ UNCHANGED <<qrVars, mailVars, formVars>>

\* The program ends; the next run makes its own client.
Exit ==
    /\ apiClient.exists
    /\ apiClient' = NoApiClient
    /\ sessions' = 0
    /\ UNCHANGED <<token_file, authOp, authOps, qrVars, mailVars, formVars>>

NextAuth ==
    \/ TokenFileChanges
    \/ NewFormsAPIClient
    \/ ClientRequest
    \/ Exit

(***************************************************************************)
(* Claims about the client's credentials, checked under SpecAuth.          *)
(***************************************************************************)
Did(step) == \E i \in 1..Len(authOp.steps) : authOp.steps[i] = step

\* The last operation asked for credentials: it found no session.
AskedForCredentials == authOp.op # None /\ authOp.before = NoSession
\* The credentials the token file held when it did, and could be read.
StoredCreds == authOp.file.creds
Readable    == authOp.file.exists /\ StoredCreds.kind = "Credentials"

\* Valid stored credentials are used as they are.
StoredValidUsedAsIs ==
    (AskedForCredentials /\ Readable /\ StoredCreds.token /\ ~StoredCreds.expired)
        => /\ authOp.steps = <<"load">>
           /\ authOp.outcome = "ok"
           /\ authOp.used.creds = StoredCreds
           /\ authOp.after = authOp.file

\* Expired stored credentials with a refresh token are refreshed.
ExpiredRefreshed ==
    (AskedForCredentials /\ Readable /\ StoredCreds.expired
        /\ StoredCreds.refresh_token)
        => Did("refresh") /\ ~Did("flow")

\* The token file is written exactly when a refresh or a flow succeeded.
WrittenWhenObtained ==
    AskedForCredentials =>
        /\ Did("write") <=> (authOp.outcome = "ok" /\ (Did("refresh") \/ Did("flow")))
        /\ Did("write") => authOp.after = Stored(authOp.used.creds)
        /\ ~Did("write") => authOp.after = authOp.file

\* One session per client, and an operation that finds it uses it.
SessionMadeOnce ==
    /\ sessions <= 1
    /\ apiClient.session # NoSession => apiClient.session.serial = 1
    /\ (authOp.op # None /\ authOp.before # NoSession)
          => /\ authOp.steps = <<>>
             /\ authOp.used = authOp.before
             /\ authOp.request.method = authOp.op
             /\ authOp.after = authOp.file

\* C14 as stated: the OAuth flow runs only when the token file is absent or
\* the stored credentials are expired and cannot be refreshed.
C14_AsStated ==
    /\ StoredValidUsedAsIs
    /\ ExpiredRefreshed
    /\ WrittenWhenObtained
    /\ SessionMadeOnce
    /\ (AskedForCredentials /\ Did("flow"))
          => \/ ~authOp.file.exists
             \/ (Readable /\ StoredCreds.expired /\ ~StoredCreds.refresh_token)

\* C14: valid stored credentials are used with no refresh, flow or write;
\* expired ones with a refresh token are refreshed; the OAuth flow runs
\* exactly when the token file is absent or the stored credentials are not
\* valid and are not both expired and refreshable (expired without a
\* refresh token, or without an access token though not expired); the token
\* file is written exactly when a refresh or a flow succeeded; the client
\* makes one session at most and every later call uses it.
C14_CredentialsAndSession ==
    /\ StoredValidUsedAsIs
    /\ ExpiredRefreshed
    /\ WrittenWhenObtained
    /\ SessionMadeOnce
    /\ AskedForCredentials
          => (Did("flow") <=>
                \/ ~authOp.file.exists
                \/ /\ Readable
                   /\ ~(StoredCreds.token /\ ~StoredCreds.expired)
                   /\ ~(StoredCreds.expired /\ StoredCreds.refresh_token))

\* Stored credentials with a refresh token but no access token, not expired:
\* the first request runs the OAuth flow and rewrites the token file.
C14_Witness ==
    /\ authOp.op = "get_form"
    /\ authOp.before = NoSession
    /\ authOp.file = Stored(Credentials(FALSE, FALSE, TRUE))
    /\ authOp.steps = <<"load", "flow", "write">>
    /\ authOp.after = Stored(Fresh)
    /\ apiClient.session = AuthorizedSession(Fresh, 1)
    /\ authOp.request.method = "get_form"

(***************************************************************************)
(* Specifications, one per subsystem.                                      *)
(***************************************************************************)
Init      == InitQR /\ InitMail /\ InitForms /\ InitAuth
SpecQR    == Init /\ [][NextQR]_vars
SpecMail  == Init /\ [][NextMail]_vars
SpecForms == Init /\ [][NextForms]_vars
SpecAuth  == Init /\ [][NextAuth]_vars

====
